---- MODULE Spec2Model ----
(***************************************************************************)
(* Lagrange interpolation at the origin of a prime field, as implemented   *)
(* by interpolate() in src/src/lagrange/lagrange.py.                       *)
(*                                                                         *)
(* Python values are encoded as follows.                                   *)
(*   scalar   [int |-> BOOLEAN, v |-> Int]   an int, or a non-int object   *)
(*   element  [seq |-> BOOLEAN, c |-> Seq(scalar)]                         *)
(*            seq = FALSE: a bare scalar c[1]; seq = TRUE: a Sequence      *)
(*            (tuple/list) with components c                               *)
(*   points   [shape |-> STRING, items |-> Seq(element),                   *)
(*             sized |-> BOOLEAN, once |-> BOOLEAN]                        *)
(*            shape "dict": a dict, items its (key, value) entries in      *)
(*            insertion order as two-component elements; "sequence": a     *)
(*            Sequence (list, tuple); "other": a non-iterable.  Every      *)
(*            other shape is the name of the Python type of an iterable    *)
(*            that is no Sequence ("set", "list_iterator", "generator",    *)
(*            "zip", ...), as len() reports it.  items is what the object  *)
(*            holds, in the order iteration yields it; sized: the type     *)
(*            has __len__, the number of items held; once: iteration       *)
(*            consumes the object (an iterator), which holds nothing       *)
(*            after it                                                     *)
(*   degree   [given |-> BOOLEAN, int |-> BOOLEAN, v |-> Int]              *)
(*            given = FALSE is None                                        *)
(*   values   the dict built by the normaliser: a sequence of <<x, y>>     *)
(*            with pairwise different x, in insertion order                *)
(***************************************************************************)
EXTENDS Integers, Sequences, FiniteSets

\* points is the object the name points is bound to, as it is now; supplied
\* is that object as the caller passed it
VARIABLES pc, points, supplied, modulus, degree, values, deg, xs, idx, total,
          ops, passed, outcome

vars == <<pc, points, supplied, modulus, degree, values, deg, xs, idx, total,
          ops, passed, outcome>>

----------------------------------------------------------------------------
(* Bounds of the model.                                                    *)

\* Longest points collection a call of Spec is given.
MaxItems == 2
\* Largest number of points a call of SpecEval is given.
MaxPoints == 3

----------------------------------------------------------------------------
(* Python values.                                                          *)

IntS(n) == [int |-> TRUE, v |-> n]
NonInt == [int |-> FALSE, v |-> 0]
Bare(s) == [seq |-> FALSE, c |-> <<s>>]
Pair(x, y) == [seq |-> TRUE, c |-> <<IntS(x), IntS(y)>>]
NoDegree == [given |-> FALSE, int |-> FALSE, v |-> 0]
IntDegree(n) == [given |-> TRUE, int |-> TRUE, v |-> n]
NonIntDegree == [given |-> TRUE, int |-> FALSE, v |-> 0]

SeqsUpTo(S, n) == UNION {[1..k -> S] : k \in 0..n}
Injective(s) == \A i, j \in 1..Len(s) : i # j => s[i] # s[j]
Range(s) == {s[i] : i \in 1..Len(s)}

\* Literal constructors: {x1: y1, ...}, [y1, ...], [(x1, y1), ...]
Object(t, sz, on, its) == [shape |-> t, items |-> its, sized |-> sz, once |-> on]
NonIterable == Object("other", FALSE, FALSE, <<>>)
Pairs(ps) == [i \in 1..Len(ps) |-> Pair(ps[i][1], ps[i][2])]
FromDict(ps) == Object("dict", TRUE, FALSE, Pairs(ps))
FromList(ys) == Object("sequence", TRUE, FALSE, [i \in 1..Len(ys) |-> Bare(IntS(ys[i]))])
FromPairs(ps) == Object("sequence", TRUE, FALSE, Pairs(ps))
\* iter([(x1, y1), ...])
FromIterator(ps) == Object("list_iterator", FALSE, TRUE, Pairs(ps))
\* an object of a caller's class that is Iterable, no Sequence, consumed by
\* iteration, and whose __len__ is the number of pairs left
FromOneShot(ps) == Object("OneShot", TRUE, TRUE, Pairs(ps))

----------------------------------------------------------------------------
(* The messages of the exceptions interpolate raises.                      *)

ErrDict == "TypeError: dictionary that represents points must have integer keys and values"
ErrNotSequence == "TypeError: iterable of integers that represents points must be a sequence"
ErrEntries == "TypeError: iterable that represents points must contain integers or two-element sequences of integers"
ErrPoints == "TypeError: expecting dictionary or iterable that represents points"
ErrEmpty == "ValueError: at least one point is required"
ErrModulusType == "TypeError: expecting an integer prime modulus"
ErrModulus == "ValueError: expecting a positive integer prime modulus"
ErrDegreeType == "TypeError: expecting an integer degree"
ErrDegree == "ValueError: expecting a nonnegative integer degree"
ErrNotEnough == "ValueError: not enough points for a unique interpolation"
\* raised by len(points) itself, naming the type of points
ErrNoLen(pts) == "TypeError: object of type '" \o pts.shape \o "' has no len()"

NoError == ""
Raised(msg) == [kind |-> "error", v |-> 0, err |-> msg]
Returned(n) == [kind |-> "value", v |-> n, err |-> NoError]
Pending == [kind |-> "none", v |-> 0, err |-> NoError]

----------------------------------------------------------------------------
(* Input normaliser, lines 160-199.                                        *)

\* len(points), for the points that have a length: what the object holds
PyLen(pts) == Len(pts.items)
HasLen(pts) == pts.sized
IsIterable(pts) == pts.shape # "other"
\* points after entries = list(points), line 175: an object that iteration
\* consumes holds nothing any more
Listed(pts) ==
    IF pts.shape \notin {"dict", "other"} /\ pts.once
    THEN [pts EXCEPT !.items = <<>>]
    ELSE pts

\* dict(entries): a later pair with a key already present replaces that key's
\* value and keeps the key's place
RECURSIVE DictOf(_, _)
DictOf(entries, acc) ==
    IF entries = <<>> THEN acc
    ELSE LET e == Head(entries)
             hit == {i \in 1..Len(acc) : acc[i][1] = e[1]}
         IN  DictOf(Tail(entries),
                    IF hit = {} THEN Append(acc, e)
                    ELSE [i \in 1..Len(acc) |-> IF i \in hit THEN e ELSE acc[i]])

\* the implicit x-coordinates counted from 0: dict(enumerate(entries))
ZipFromZero(ys) == [i \in 1..Len(ys) |-> <<i - 1, ys[i]>>]

\* dict(zip(range(1, len(entries) + 1), entries))
ZipFromOne(ys) == [i \in 1..Len(ys) |-> <<i, ys[i]>>]

AllIntegers(items) == \A i \in 1..Len(items) : ~items[i].seq /\ items[i].c[1].int
AllSequences(items) == \A i \in 1..Len(items) : items[i].seq
AllIntPairs(items) ==
    \A i \in 1..Len(items) :
        Len(items[i].c) = 2 /\ \A j \in 1..Len(items[i].c) : items[i].c[j].int
AsPairs(items) == [i \in 1..Len(items) |-> <<items[i].c[1].v, items[i].c[2].v>>]
AsInts(items) == [i \in 1..Len(items) |-> items[i].c[1].v]

Accept(vals) == [ok |-> TRUE, err |-> NoError, values |-> vals]
Reject(msg) == [ok |-> FALSE, err |-> msg, values |-> <<>>]

Normalise(pts) ==
    IF pts.shape = "dict"
    THEN IF AllIntPairs(pts.items) THEN Accept(AsPairs(pts.items)) ELSE Reject(ErrDict)
    ELSE IF IsIterable(pts)
    THEN IF AllIntegers(pts.items)
         THEN IF pts.shape # "sequence" THEN Reject(ErrNotSequence)
              ELSE Accept(ZipFromOne(AsInts(pts.items)))
         ELSE IF AllSequences(pts.items)
         THEN IF AllIntPairs(pts.items) THEN Accept(DictOf(AsPairs(pts.items), <<>>))
              ELSE Reject(ErrEntries)
         ELSE Reject(ErrPoints)
    ELSE Reject(ErrPoints)

----------------------------------------------------------------------------
(* Validation of the point count, the modulus and the degree, 201-220.     *)

EmptyError(vals) == IF Len(vals) = 0 THEN ErrEmpty ELSE NoError

\* the range test made before the type test
ModulusErrorRangeFirst(m) ==
    IF m.v <= 1 THEN ErrModulus
    ELSE IF ~m.int THEN ErrModulusType
    ELSE NoError

ModulusError(m) ==
    IF ~m.int THEN ErrModulusType
    ELSE IF m.v <= 1 THEN ErrModulus
    ELSE NoError

\* the degree left unvalidated
DegreeErrorNone(d) == NoError

DegreeError(d) ==
    IF ~d.given THEN NoError
    ELSE IF ~d.int THEN ErrDegreeType
    ELSE IF d.v < 0 THEN ErrDegree
    ELSE NoError

\* degree = degree or len(points) - 1: len(points) is evaluated only when the
\* degree is None or 0, and raises when points has no length
LenError(pts, d) ==
    IF (~d.given \/ d.v = 0) /\ ~HasLen(pts) THEN ErrNoLen(pts) ELSE NoError

EffectiveDegree(pts, d) == IF d.given /\ d.v # 0 THEN d.v ELSE PyLen(pts) - 1

EnoughError(vals, d) == IF Len(vals) <= d THEN ErrNotEnough ELSE NoError

\* list(values.keys()), the truncation left out
RestrictAll(vals, d) == [i \in 1..Len(vals) |-> vals[i][1]]

\* xs = list(values.keys())[:degree + 1]
Restrict(vals, d) ==
    [i \in 1..(IF d + 1 < Len(vals) THEN d + 1 ELSE Len(vals)) |-> vals[i][1]]

\* values[x]
Lookup(vals, x) == (CHOOSE i \in 1..Len(vals) : vals[i][1] = x)

----------------------------------------------------------------------------
(* Field arithmetic, lines 11-15 and 226-227.                              *)

\* pow(a, e, m) for e >= 0 and m > 0
RECURSIVE PowMod(_, _, _)
PowMod(a, e, m) == IF e = 0 THEN 1 % m ELSE (a * PowMod(a, e - 1, m)) % m

Inv(a, prime) == PowMod(a, prime - 2, prime)
\* (a % modulus) * b, the product left unreduced
MulNoReduce(a, b, m) == (a % m) * b
Mul(a, b, m) == ((a % m) * b) % m
Div(a, b, m) == Mul(a, Inv(b, m), m)

----------------------------------------------------------------------------
(* Basis evaluator, lines 231-244.                                         *)

\* the x_known of xs that are not x, in order
Others(x, domain) == SelectSeq(domain, LAMBDA k : k # x)

\* itertools.chain([values[x]], (div(0 - x_known, x - x_known) for ...))
Factors(x, vals, domain, m) ==
    LET o == Others(x, domain)
    IN  <<vals[Lookup(vals, x)][2]>> \o [j \in 1..Len(o) |-> Div(0 - o[j], x - o[j], m)]

\* reduce(mul, factors, acc)
RECURSIVE Reduce(_, _, _)
Reduce(fs, acc, m) ==
    IF fs = <<>> THEN acc ELSE Reduce(Tail(fs), Mul(acc, Head(fs), m), m)

BasisTerm(x, vals, domain, m) == Reduce(Factors(x, vals, domain, m), 1, m)

\* sum(... for x in xs)
RECURSIVE SumTerms(_, _, _, _)
SumTerms(rest, vals, domain, m) ==
    IF rest = <<>> THEN 0
    ELSE BasisTerm(Head(rest), vals, domain, m) + SumTerms(Tail(rest), vals, domain, m)

Evaluate(vals, domain, m) == SumTerms(domain, vals, domain, m) % m

\* calls of mul and _inv made for one x of xs
StepsPerTerm(domain) == Len(domain) + 2 * (Len(domain) - 1)

----------------------------------------------------------------------------
(* The whole call.                                                         *)

FirstError(pts, m, d) ==
    LET n == Normalise(pts)
    IN  IF ~n.ok THEN n.err
        ELSE IF EmptyError(n.values) # NoError THEN EmptyError(n.values)
        ELSE IF ModulusError(m) # NoError THEN ModulusError(m)
        ELSE IF DegreeError(d) # NoError THEN DegreeError(d)
        ELSE IF LenError(Listed(pts), d) # NoError THEN LenError(Listed(pts), d)
        ELSE EnoughError(n.values, EffectiveDegree(Listed(pts), d))

Interpolate(pts, m, d) ==
    IF FirstError(pts, m, d) # NoError THEN Raised(FirstError(pts, m, d))
    ELSE LET vals == Normalise(pts).values
         IN  Returned(Evaluate(vals,
                               Restrict(vals, EffectiveDegree(Listed(pts), d)),
                               m.v))

----------------------------------------------------------------------------
(* Arguments the calls are given.                                          *)

\* Coordinates of the well-formed points: negative, zero, and values at or
\* above the small moduli.
Coords == -1..2
\* Moduli of the calls of SpecEval: the primes 2, 3, 5 and the composite 4.
FieldModuli == {2, 3, 4, 5}
Primes == {2, 3, 5}

GenInts == {1, 2}
GenScalars == {IntS(n) : n \in GenInts} \cup {NonInt}
\* Elements of a list or set: bare integers, a float, pairs of integers, a
\* pair holding a non-integer, and a three-element tuple.
GenElems ==
    {Bare(s) : s \in GenScalars}
    \cup {Pair(x, y) : x, y \in GenInts}
    \cup {[seq |-> TRUE, c |-> <<IntS(1), NonInt>>],
          [seq |-> TRUE, c |-> <<IntS(1), IntS(1), IntS(1)>>]}
GenEntries == {[seq |-> TRUE, c |-> <<k, v>>] : k, v \in GenScalars}
DistinctKeys(s) == \A i, j \in 1..Len(s) : i # j => s[i].c[1] # s[j].c[1]

\* Types of the iterables that are no Sequence the calls are given: a set,
\* the iterators of the standard library, and two classes of a caller:
\* OneShot, an iterator with __len__, and Stream, an iterable without
\* __len__ that iteration leaves as it is.
Iterators ==
    {"list_iterator", "tuple_iterator", "set_iterator", "generator", "map",
     "zip", "filter", "enumerate"}
IterTypes ==
    {[shape |-> "set", sized |-> TRUE, once |-> FALSE],
     [shape |-> "OneShot", sized |-> TRUE, once |-> TRUE],
     [shape |-> "Stream", sized |-> FALSE, once |-> FALSE]}
    \cup {[shape |-> t, sized |-> FALSE, once |-> TRUE] : t \in Iterators}

GenPoints ==
    {Object("dict", TRUE, FALSE, s) :
        s \in {t \in SeqsUpTo(GenEntries, MaxItems) : DistinctKeys(t)}}
    \cup {Object("sequence", TRUE, FALSE, s) : s \in SeqsUpTo(GenElems, MaxItems)}
    \cup {o \in {Object(t.shape, t.sized, t.once, s) :
                    t \in IterTypes, s \in SeqsUpTo(GenElems, MaxItems)} :
            o.shape = "set" => Injective(o.items)}
    \cup {FromList(ys) : ys \in SeqsUpTo(Coords, MaxItems)}
    \cup {NonIterable}
\* 'abc', -17 and -3 are the invalid arguments of the doctests.
GenModuli == {NonInt, IntS(-17), IntS(1), IntS(2), IntS(3)}
GenDegrees ==
    {NoDegree, NonIntDegree, IntDegree(-3)} \cup {IntDegree(n) : n \in 0..MaxItems}

DistinctX(ps) == \A i, j \in 1..Len(ps) : i # j => ps[i][1] # ps[j][1]
FieldPointLists ==
    {ps \in SeqsUpTo(Coords \X Coords, MaxPoints) : Len(ps) > 0 /\ DistinctX(ps)}
FieldPoints ==
    {FromDict(ps) : ps \in FieldPointLists}
    \cup {FromPairs(ps) : ps \in FieldPointLists}
    \cup {FromIterator(ps) : ps \in FieldPointLists}
    \cup {FromOneShot(ps) : ps \in FieldPointLists}
    \cup {FromList(ys) : ys \in SeqsUpTo(Coords, MaxPoints) \ {<<>>}}

----------------------------------------------------------------------------
(* One call of interpolate, statement by statement.                        *)

Init ==
    /\ pc = "idle"
    /\ points = NonIterable
    /\ supplied = NonIterable
    /\ modulus = NonInt
    /\ degree = NoDegree
    /\ values = <<>>
    /\ deg = 0
    /\ xs = <<>>
    /\ idx = 0
    /\ total = 0
    /\ ops = 0
    /\ passed = {}
    /\ outcome = Pending

locals == <<values, deg, xs, idx, total, ops, passed>>
args == <<supplied, modulus, degree>>

\* interpolate(points, modulus, degree) is called
Call ==
    /\ pc = "idle"
    /\ \E p \in GenPoints, m \in GenModuli, d \in GenDegrees :
        /\ points' = p
        /\ supplied' = p
        /\ modulus' = m
        /\ degree' = d
    /\ pc' = "normalise"
    /\ UNCHANGED <<locals, outcome>>

\* lines 160-199
NormalisePoints ==
    /\ pc = "normalise"
    /\ LET n == Normalise(points)
       IN  /\ values' = n.values
           /\ points' = Listed(points)
           /\ pc' = IF n.ok THEN "empty" ELSE "done"
           /\ outcome' = IF n.ok THEN outcome ELSE Raised(n.err)
           /\ passed' = IF n.ok THEN passed \cup {"points"} ELSE passed
    /\ UNCHANGED <<args, deg, xs, idx, total, ops>>

\* lines 201-202
CheckEmpty ==
    /\ pc = "empty"
    /\ LET e == EmptyError(values)
       IN  /\ pc' = IF e = NoError THEN "modulus" ELSE "done"
           /\ outcome' = IF e = NoError THEN outcome ELSE Raised(e)
           /\ passed' = IF e = NoError THEN passed \cup {"empty"} ELSE passed
    /\ UNCHANGED <<args, points, values, deg, xs, idx, total, ops>>

\* lines 204-208
CheckModulus ==
    /\ pc = "modulus"
    /\ LET e == ModulusError(modulus)
       IN  /\ pc' = IF e = NoError THEN "degree" ELSE "done"
           /\ outcome' = IF e = NoError THEN outcome ELSE Raised(e)
           /\ passed' = IF e = NoError THEN passed \cup {"modulus"} ELSE passed
    /\ UNCHANGED <<args, points, values, deg, xs, idx, total, ops>>

\* lines 210-215
CheckDegree ==
    /\ pc = "degree"
    /\ LET e == DegreeError(degree)
       IN  /\ pc' = IF e = NoError THEN "enough" ELSE "done"
           /\ outcome' = IF e = NoError THEN outcome ELSE Raised(e)
           /\ passed' = IF e = NoError THEN passed \cup {"degree"} ELSE passed
    /\ UNCHANGED <<args, points, values, deg, xs, idx, total, ops>>

\* lines 217-220
CheckEnough ==
    /\ pc = "enough"
    /\ LET noLen == LenError(points, degree)
           d == IF noLen = NoError THEN EffectiveDegree(points, degree) ELSE deg
           e == IF noLen = NoError THEN EnoughError(values, d) ELSE noLen
       IN  /\ deg' = d
           /\ pc' = IF e = NoError THEN "restrict" ELSE "done"
           /\ outcome' = IF e = NoError THEN outcome ELSE Raised(e)
           /\ passed' = IF e = NoError THEN passed \cup {"enough"} ELSE passed
    /\ UNCHANGED <<args, points, values, xs, idx, total, ops>>

\* line 223
RestrictDomain ==
    /\ pc = "restrict"
    /\ xs' = Restrict(values, deg)
    /\ idx' = 1
    /\ pc' = "sum"
    /\ UNCHANGED <<args, points, values, deg, total, ops, passed, outcome>>

\* lines 231-243: the term of the next x of xs is computed and added
AddTerm ==
    /\ pc = "sum"
    /\ idx <= Len(xs)
    /\ total' = total + BasisTerm(xs[idx], values, xs, modulus.v)
    /\ ops' = ops + StepsPerTerm(xs)
    /\ idx' = idx + 1
    /\ UNCHANGED <<args, points, values, deg, xs, passed, outcome, pc>>

\* line 244
Return ==
    /\ pc = "sum"
    /\ idx > Len(xs)
    /\ outcome' = Returned(total % modulus.v)
    /\ pc' = "done"
    /\ UNCHANGED <<args, points, locals>>

Next ==
    \/ Call
    \/ NormalisePoints
    \/ CheckEmpty
    \/ CheckModulus
    \/ CheckDegree
    \/ CheckEnough
    \/ RestrictDomain
    \/ AddTerm
    \/ Return

Spec == Init /\ [][Next]_vars

----------------------------------------------------------------------------
(* One call of interpolate on well-formed points, as a single step.        *)

CallField ==
    /\ pc = "idle"
    /\ \E p \in FieldPoints, m \in FieldModuli :
        \E d \in {NoDegree} \cup {IntDegree(n) : n \in 0..PyLen(p)} :
            /\ points' = p
            /\ supplied' = p
            /\ modulus' = IntS(m)
            /\ degree' = d
    /\ pc' = "called"
    /\ UNCHANGED <<locals, outcome>>

Apply ==
    /\ pc = "called"
    /\ outcome' = Interpolate(points, modulus, degree)
    /\ points' = Listed(points)
    /\ pc' = "done"
    /\ UNCHANGED <<args, locals>>

NextEval ==
    \/ CallField
    \/ Apply

SpecEval == Init /\ [][NextEval]_vars

\* The statement-by-statement call and the whole call end alike.
StepsAgree ==
    pc = "done" =>
        /\ outcome = Interpolate(supplied, modulus, degree)
        /\ points = Listed(supplied)

----------------------------------------------------------------------------
(* Vocabulary of the properties.                                           *)

Done == pc = "done"
Prime == modulus.int /\ modulus.v \in Primes

\* The points a well-formed argument supplies, in the order it supplies them:
\* the (key, value) or (x, y) pairs, or (i, y_i) for a list of integers.
Given(pts) ==
    [i \in 1..Len(pts.items) |->
        IF pts.items[i].seq THEN <<pts.items[i].c[1].v, pts.items[i].c[2].v>>
        ELSE <<i, pts.items[i].c[1].v>>]

WellFormed(pts) ==
    \/ pts.shape # "other" /\ AllIntPairs(pts.items)
    \/ pts.shape = "sequence" /\ AllIntegers(pts.items)

DistinctModulo(ps, p) ==
    \A i, j \in 1..Len(ps) : i # j => (ps[i][1] - ps[j][1]) % p # 0

\* c[1] + c[2] x + ... + c[d+1] x^d
RECURSIVE Horner(_, _)
Horner(c, x) == IF c = <<>> THEN 0 ELSE Head(c) + x * Horner(Tail(c), x)
PolyAt(c, x, p) == Horner(c, x) % p
Polys(p, d) == [1..(d + 1) -> 0..(p - 1)]
Samples(c, ps, p) == \A i \in 1..Len(ps) : ps[i][2] = PolyAt(c, ps[i][1], p)
Through(c, ps, p) == \A i \in 1..Len(ps) : (ps[i][2] - PolyAt(c, ps[i][1], p)) % p = 0

Permutations(ps) == {q \in [1..Len(ps) -> Range(ps)] : Injective(q)}

----------------------------------------------------------------------------
\* C1: for a prime modulus p, a polynomial f of degree d and n >= d+1 points
\* (x_i, f(x_i) mod p) with x-coordinates pairwise distinct modulo p, the call
\* returns f(0) mod p, with the degree given as d and with the degree omitted.
C1_OriginValue ==
    (Done /\ Prime /\ WellFormed(supplied)) =>
        LET ps == Given(supplied)
            p == modulus.v
        IN  (/\ DistinctModulo(ps, p)
             /\ \A i \in 1..Len(ps) : 0 <= ps[i][2] /\ ps[i][2] < p)
            => \A d \in 0..(Len(ps) - 1) :
                degree \in {NoDegree, IntDegree(d)}
                => \A f \in Polys(p, d) :
                    Samples(f, ps, p) => outcome = Returned(f[1])

----------------------------------------------------------------------------
\* C2: with a degree d supplied, 0 <= d < n, the call returns the value at 0
\* of the polynomial of degree <= d through the first d+1 points in iteration
\* order; the later points have no influence.
C2_Truncation ==
    (Done /\ Prime /\ WellFormed(supplied) /\ degree.given) =>
        LET ps == Given(supplied)
            p == modulus.v
            d == degree.v
        IN  (DistinctModulo(ps, p) /\ 0 <= d /\ d < Len(ps)) =>
                LET f == CHOOSE c \in Polys(p, d) : Through(c, SubSeq(ps, 1, d + 1), p)
                IN  outcome = Returned(f[1])

----------------------------------------------------------------------------
\* C4: a returned value lies in [0, modulus), and so do every product the
\* reduction accumulates, every quotient and every inverse, whatever the
\* integers x and y of the points are.
InRange(n) == 0 <= n /\ n < modulus.v

C4_Reduced ==
    (Done /\ outcome.kind = "value") =>
        LET vals == Normalise(supplied).values
            dom == Restrict(vals, EffectiveDegree(points, degree))
            m == modulus.v
        IN  /\ InRange(outcome.v)
            /\ \A i \in 1..Len(dom) :
                LET fs == Factors(dom[i], vals, dom, m)
                IN  /\ \A k \in 1..Len(fs) : InRange(Reduce(SubSeq(fs, 1, k), 1, m))
                    /\ \A k \in 2..Len(fs) : InRange(fs[k])
            /\ \A i, j \in 1..Len(dom) : i # j => InRange(Inv(dom[i] - dom[j], m))

\* modulus 2: a negative x and a negative y, a y at the modulus, two x
\* congruent to each other and one congruent to 0
C4_Witness ==
    /\ Done /\ outcome.kind = "value" /\ modulus = IntS(2) /\ degree = NoDegree
    /\ Len(supplied.items) = 3
    /\ LET ps == Given(supplied)
       IN  /\ ps[1][1] = -1 /\ ps[2][1] = 1 /\ ps[3][1] = 2
           /\ ps[1][2] = -1 /\ ps[2][2] = 2

----------------------------------------------------------------------------
\* C7: one point (x, y), a valid modulus p, the degree 0 or omitted: the call
\* returns y mod p.
C7_SinglePoint ==
    (Done /\ WellFormed(supplied) /\ Len(supplied.items) = 1
          /\ degree \in {NoDegree, IntDegree(0)})
    => outcome = Returned(Given(supplied)[1][2] % modulus.v)

----------------------------------------------------------------------------
\* C9: for a mapping of n points with x-coordinates pairwise distinct modulo
\* the prime modulus, the result at degree n-1 or with the degree omitted is
\* the same for every insertion order; with a degree d, 1 <= d < n-1, the
\* result is that of the mapping of the first d+1 entries alone, and every
\* mapping that starts with these d+1 entries, whatever follows them and in
\* whatever order, gives the same result.
Prefix(ps, k) == SubSeq(ps, 1, k)
\* the mappings of at most MaxPoints points that start with the entries start
StartingWith(start) ==
    {q \in {start \o t : t \in SeqsUpTo(Coords \X Coords, MaxPoints - Len(start))} :
        DistinctX(q)}

C9_Order ==
    (Done /\ Prime /\ supplied.shape = "dict") =>
        LET ps == Given(supplied)
            n == Len(ps)
        IN  DistinctModulo(ps, modulus.v) =>
            /\ degree \in {NoDegree, IntDegree(n - 1)} =>
                \A q \in Permutations(ps) :
                    Interpolate(FromDict(q), modulus, degree) = outcome
            /\ (degree.given /\ 1 <= degree.v /\ degree.v < n - 1) =>
                LET first == Prefix(ps, degree.v + 1)
                IN  /\ outcome.kind = "value"
                    /\ Interpolate(FromDict(first), modulus, degree) = outcome
                    /\ Interpolate(FromDict(first), modulus, NoDegree) = outcome
                    /\ \A q \in StartingWith(first) :
                        Interpolate(FromDict(q), modulus, degree) = outcome
                    /\ \A q \in Permutations(ps) :
                        Prefix(q, degree.v + 1) = first
                        => Interpolate(FromDict(q), modulus, degree) = outcome

\* three points at degree 1: a mapping with the same first two entries and
\* another third point is among those compared, another insertion order of
\* the three points gives another result, and at degree 2 every order gives
\* this call's full-degree result
C9_Witness ==
    /\ Done /\ Prime /\ supplied.shape = "dict" /\ Len(supplied.items) = 3
    /\ DistinctModulo(Given(supplied), modulus.v)
    /\ degree = IntDegree(1) /\ outcome.kind = "value"
    /\ \E q \in StartingWith(Prefix(Given(supplied), 2)) :
        /\ Len(q) = 3 /\ q[3][1] # Given(supplied)[3][1]
        /\ Interpolate(FromDict(q), modulus, NoDegree)
            # Interpolate(supplied, modulus, NoDegree)
    /\ \E q \in Permutations(Given(supplied)) :
        Interpolate(FromDict(q), modulus, degree) # outcome
    /\ \A q \in Permutations(Given(supplied)) :
        Interpolate(FromDict(q), modulus, IntDegree(2))
            = Interpolate(supplied, modulus, NoDegree)

----------------------------------------------------------------------------
(* The error kinds and the order of the checks.                            *)

Structural == {ErrDict, ErrEntries, ErrPoints}

\* The number of distinct x-coordinates of a well-formed argument.
PointSetSize(pts) == Cardinality({Given(pts)[i][1] : i \in 1..Len(pts.items)})

ValidModulus(m) == m.int /\ m.v > 1
ValidDegree(d) == ~d.given \/ (d.int /\ d.v >= 0)
IntendedDegree(pts, d) == IF d.given THEN d.v ELSE PointSetSize(pts) - 1

----------------------------------------------------------------------------
\* C3: a list of integers y1..yn, the mapping {1: y1, ..., n: yn} and the
\* list of pairs [(1, y1), ..., (n, yn)] have the same outcome, the same
\* value or the same error, for every modulus and every degree argument.
C3_Representations ==
    (Done /\ supplied.shape = "sequence" /\ AllIntegers(supplied.items)) =>
        /\ outcome = Interpolate(FromDict(Given(supplied)), modulus, degree)
        /\ outcome = Interpolate(FromPairs(Given(supplied)), modulus, degree)

C3_Witness ==
    /\ Done /\ supplied = FromList(<<-1, 2>>) /\ modulus = IntS(3)
    /\ degree = NoDegree /\ outcome.kind = "value"
    /\ outcome = Interpolate(FromDict(<<<<1, -1>>, <<2, 2>>>>), modulus, degree)

----------------------------------------------------------------------------
\* C5: with well-formed, non-empty points and a valid modulus and degree, the
\* call fails with 'not enough points' exactly when the number of distinct
\* x-coordinates is at most the effective degree: the supplied degree, or
\* that number less one when the degree is omitted.
C5_Insufficient ==
    (Done /\ WellFormed(supplied) /\ Len(supplied.items) > 0
          /\ ValidModulus(modulus) /\ ValidDegree(degree))
    => (outcome = Raised(ErrNotEnough)
            <=> PointSetSize(supplied) <= IntendedDegree(supplied, degree))

----------------------------------------------------------------------------
\* C6: a dict, sequence or unordered collection (a set, an iterator) holding zero points fails
\* with 'at least one point is required'; a non-empty malformed collection
\* never does.
C6_Empty ==
    Done =>
        /\ (supplied.shape # "other" /\ Len(supplied.items) = 0)
            => outcome = Raised(ErrEmpty)
        /\ (Len(supplied.items) > 0 /\ ~WellFormed(supplied))
            => outcome # Raised(ErrEmpty)

----------------------------------------------------------------------------
\* C8: every check is completed before the first arithmetic step; a call
\* that ends in an error has performed no arithmetic step; a call that
\* reaches the arithmetic can always take its next step, moves through xs one
\* x at a time, and leaves the summation only by returning a value.
AllChecks == {"points", "empty", "modulus", "degree", "enough"}
ValidCall ==
    /\ WellFormed(supplied) /\ Len(supplied.items) > 0
    /\ ValidModulus(modulus) /\ ValidDegree(degree)
    /\ Len(values) > deg
Computing == pc \in {"restrict", "sum"} \/ ops > 0 \/ outcome.kind = "value"

C8_FailFast ==
    /\ [](Computing => (passed = AllChecks /\ ValidCall))
    /\ [](outcome.kind = "error" => ops = 0)
    /\ [][ops' # ops => (pc = "sum" /\ passed = AllChecks)]_vars
    /\ [](pc = "sum" => ENABLED (AddTerm \/ Return))
    /\ [][pc = "sum" => \/ pc' = "sum" /\ idx' = idx + 1 /\ idx' <= Len(xs) + 1
                        \/ Done' /\ outcome'.kind = "value"]_vars

C8_Witness ==
    /\ Done /\ outcome.kind = "value" /\ passed = AllChecks
    /\ Len(values) = 2 /\ Len(xs) = 2 /\ ops = 2 * StepsPerTerm(xs)

----------------------------------------------------------------------------
\* C10: when one or more arguments are invalid, the error raised is the
\* first that applies in the order: points structure or unordered bare
\* integers, empty point set, modulus not an integer, modulus <= 1, degree
\* not an integer, degree negative, not enough points.
HasNonInteger(items) ==
    \E i \in 1..Len(items) : items[i].seq \/ ~items[i].c[1].int
HasNonPair(items) ==
    \E i \in 1..Len(items) :
        \/ ~items[i].seq
        \/ Len(items[i].c) # 2
        \/ \E j \in 1..Len(items[i].c) : ~items[i].c[j].int
Malformed(pts) ==
    \/ pts.shape = "other"
    \/ pts.shape = "dict" /\ HasNonPair(pts.items)
    \/ pts.shape \notin {"dict", "other"}
        /\ HasNonInteger(pts.items) /\ HasNonPair(pts.items)
UnorderedIntegers(pts) ==
    pts.shape \notin {"dict", "sequence", "other"} /\ ~HasNonInteger(pts.items)

Applies(k) ==
    CASE k = 1 -> Malformed(supplied) \/ UnorderedIntegers(supplied)
      [] k = 2 -> Len(supplied.items) = 0
      [] k = 3 -> ~modulus.int
      [] k = 4 -> modulus.int /\ modulus.v <= 1
      [] k = 5 -> degree.given /\ ~degree.int
      [] k = 6 -> degree.given /\ degree.int /\ degree.v < 0
      [] k = 7 -> /\ WellFormed(supplied) /\ ValidDegree(degree)
                  /\ PointSetSize(supplied) <= IntendedDegree(supplied, degree)
Kinds(k) ==
    CASE k = 1 -> Structural \cup {ErrNotSequence}
      [] k = 2 -> {ErrEmpty}
      [] k = 3 -> {ErrModulusType}
      [] k = 4 -> {ErrModulus}
      [] k = 5 -> {ErrDegreeType}
      [] k = 6 -> {ErrDegree}
      [] k = 7 -> {ErrNotEnough}

C10_Precedence ==
    Done => \A k \in 1..7 :
        (Applies(k) /\ \A h \in 1..(k - 1) : ~Applies(h))
        => (outcome.kind = "error" /\ outcome.err \in Kinds(k))

\* an empty list with modulus -17 and a negative degree: three errors apply
C10_Witness ==
    /\ Done /\ supplied = FromList(<<>>) /\ modulus = IntS(-17)
    /\ degree = IntDegree(-3) /\ outcome = Raised(ErrEmpty)

====
